---- MODULE Spec2Model ----
(***************************************************************************)
(* superpyrate/pipeline.py: the luigi pipeline from a folder of zipped AIS *)
(* archives to database tables.  The state is what persists between       *)
(* invocations (the working folder and the database) plus the worker's     *)
(* view of the tasks of the invocation in progress.                        *)
(***************************************************************************)
EXTENDS Integers, Sequences, FiniteSets, TLC

(***************************************************************************)
(* Bounds and the fixture the pipeline is run on.                          *)
(***************************************************************************)
\* Number of times the entry point is invoked on the same folder.
MaxInvocations == 2

\* Worker processes of one invocation (luigi --workers).
Workers == 2

\* File names are (stem, extension) pairs, as os.path.splitext sees them.
NoEntry == <<"", "">>

\* Entries of folder_of_zips: two archives and one file that is not one.
FolderListing == {<<"a1", ".zip">>, <<"a2", ".zip">>, <<"notes", ".txt">>}

\* What each archive holds, in the order the unzip program extracts it:
\* a1 two csv files and one other file, a2 no csv file.
ArchiveContents(a) ==
    CASE a = "a1" -> << <<"x", ".csv">>, <<"readme", ".txt">>, <<"y", ".csv">> >>
      [] a = "a2" -> << <<"readme", ".txt">> >>
      [] OTHER -> << >>

Range(s) == {s[i] : i \in 1..Len(s)}

Prefix(s, k) == SubSeq(s, 1, k)

ZipStems == {e[1] : e \in FolderListing}

Entries == UNION {Range(ArchiveContents(a)) : a \in ZipStems}

\* A path below files/unzipped is (archive stem, entry).
CsvPaths == {p \in ZipStems \X Entries : p[2] \in Range(ArchiveContents(p[1]))}

\* The csv files the archives of the folder really hold.
SourceCsvs ==
    {p \in CsvPaths : /\ <<p[1], ".zip">> \in FolderListing
                      /\ p[2] \in Range(ArchiveContents(p[1]))
                      /\ p[2][2] = ".csv"}

(***************************************************************************)
(* Path helpers (os.path).                                                 *)
(***************************************************************************)
splitext(e) == e

basename(p) == p[2]

(***************************************************************************)
(* Tasks: (kind, archive stem, entry).                                     *)
(***************************************************************************)
Task(kind, a, e) == <<kind, a, e>>

Root == Task("ProcessZipArchives", "", NoEntry)

\* MakeAllIndices(folder, script, with_db, table = 'ais_clean')
IndexRoot == Task("MakeAllIndices", "ais_clean", NoEntry)

\* Values of the parameter table: the two tables MakeAllIndices knows, and
\* one it does not.
Tables == {"ais_clean", "ais_dirty", "ais_other"}

\* The entries of the index specification of ais_clean, by index name.
Indices == {"mmsi_idx"}

\* The entries of the index specification of ais_dirty.
DirtyIndices == {"mmsi_idx", "time_idx"}

\* Every (table, index name) an index task may be made for.
TableIndices == ({"ais_clean"} \X Indices) \cup ({"ais_dirty"} \X DirtyIndices)

RootKinds == {"ProcessZipArchives", "MakeAllIndices"}

FolderTask == Task("GetFolderOfArchives", "", NoEntry)

ArchiveKinds == {"GetZipArchive", "UnzippedArchive", "ProcessCsv", "WriteCsvToDb"}

FileKinds == {"GetCsvFile", "ValidMessages", "ValidMessagesToDatabase", "LoadCleanedAIS"}

DbKinds == {"ValidMessagesToDatabase", "LoadCleanedAIS"}

Tasks ==
    {Root, FolderTask}
    \cup {Task("MakeAllIndices", tb, NoEntry) : tb \in Tables}
    \cup {Task("MakeIndexByQuery", x[1], <<x[2], "">>) : x \in TableIndices}
    \cup {Task(k, a, NoEntry) : k \in ArchiveKinds, a \in ZipStems}
    \cup {Task(k, p[1], p[2]) : k \in FileKinds, p \in CsvPaths}

DbTasks == {t \in Tasks : t[1] \in DbKinds}

\* The tasks whose run opens a database connection.
ConnTasks == {t \in Tasks : t[1] \in DbKinds \cup {"MakeIndexByQuery"}}

PathOf(t) == <<t[2], t[3]>>

(***************************************************************************)
(* The bulk-copy source: a stream of records, each a sequence of fields.   *)
(***************************************************************************)
\* The first two of the 17 columns of ValidMessagesToDatabase.cols.
cols == <<"MMSI", "Time">>

lower(s) ==
    CASE s = "MMSI" -> "mmsi"
      [] s = "Time" -> "time"
      [] OTHER -> s

columns == [i \in 1..Len(cols) |-> lower(cols[i])]

\* The one message each raw csv file holds, as the cleaning writes it.
CleanRow(p) ==
    CASE p = <<"a1", <<"x", ".csv">> >> -> <<"1", "">>
      [] p = <<"a1", <<"y", ".csv">> >> -> <<"2", "7">>
      [] OTHER -> <<"3", "">>

VARIABLES
    unzipped,       \* files/unzipped/<archive>: [exists, entries]
    cleancsv,       \* files/cleancsv/<name>: [exists, data]
    processcsv,     \* tmp/processcsv/<archive>: [exists, content]
    writecsv,       \* tmp/writecsv/<archive>: [exists, content]
    archives,       \* tmp/archives/<folder>: [exists, content]
    indexes,        \* tmp/database/create_<table>_indexes.txt, per table:
                    \* [exists, content]
    table_exists,   \* whether relation ais_clean exists (committed)
    ais_clean,      \* committed copies, per loading task: sequence of batches
    ais_sources,    \* committed bookkeeping rows: how many per filename
    pg_indexes,     \* the indices that exist (committed): (table, index name)
    table_updates,  \* luigi's marker table: the update_ids committed
    status,         \* the worker's view of each task in this invocation
    dyn,            \* the tasks each task yielded from run (dynamic requirements)
    conn,           \* each database task's connection and open transaction
    inv,            \* the invocation: [n, root, with_db, table, phase, result]
    hist,           \* history of the invocation, for stating properties
    work,           \* the working folder by path: [targets, ran, skipped, n]
    pg_trigger      \* whether relation ais_clean has a row trigger that refers
                    \* to a relation that does not exist

fsvars == <<unzipped, cleancsv, processcsv, writecsv, archives, indexes>>

dbvars == <<table_exists, ais_clean, ais_sources, pg_indexes, table_updates>>

vars == <<unzipped, cleancsv, processcsv, writecsv, archives, indexes, table_exists,
          ais_clean, ais_sources, pg_indexes, table_updates, status, dyn, conn, inv,
          hist, work, pg_trigger>>

(***************************************************************************)
(* Targets: output() of each task, and whether it exists.                  *)
(***************************************************************************)
\* The Target of each task, as the working folder and the marker table are
\* laid out: what the history of an invocation records of a task taken up.
TargetExists(t) ==
    CASE t[1] = "ProcessZipArchives" -> archives.exists
      [] t[1] = "MakeAllIndices" -> indexes[t[2]].exists
      [] t[1] = "MakeIndexByQuery" -> t \in table_updates
      [] t[1] = "UnzippedArchive" -> unzipped[t[2]].exists
      [] t[1] = "ProcessCsv" -> processcsv[t[2]].exists
      [] t[1] = "WriteCsvToDb" -> writecsv[t[2]].exists
      [] t[1] = "ValidMessages" -> cleancsv[t[3]].exists
      [] t[1] \in DbKinds -> t \in table_updates
      [] OTHER -> TRUE

\* output(), were it a folder elsewhere than the one the program is given.
UnzippedArchive_output_elsewhere(a) == [exists |-> FALSE, entries |-> {}]

\* files/unzipped/<archive stem>
UnzippedArchive_output(a) == unzipped[a]

\* tmp/processcsv/<archive stem>
ProcessCsv_output(a) == processcsv[a]

\* tmp/writecsv/<archive stem>
WriteCsvToDb_output(a) == writecsv[a]

\* files/cleancsv/<basename of the csv path>
ValidMessages_output(p) == cleancsv[basename(p)]

\* tmp/archives/<basename of folder_of_zips>: with_db is no part of it.
ProcessZipArchives_output(with_db) == archives

\* tmp/database/create_<table>_indexes.txt
MakeAllIndices_output(table) == indexes[table]

\* PostgresTarget of a CopyToTable task: the row update_id = task id.
CopyToTable_exists(t) == t \in table_updates

\* Task.complete(): the output exists.
Complete(t) ==
    CASE t[1] = "ProcessZipArchives" -> ProcessZipArchives_output(inv.with_db).exists
      [] t[1] = "MakeAllIndices" -> MakeAllIndices_output(t[2]).exists
      [] t[1] = "GetFolderOfArchives" -> TRUE
      [] t[1] = "GetZipArchive" -> <<t[2], ".zip">> \in FolderListing
      [] t[1] = "UnzippedArchive" -> UnzippedArchive_output(t[2]).exists
      [] t[1] = "ProcessCsv" -> ProcessCsv_output(t[2]).exists
      [] t[1] = "WriteCsvToDb" -> WriteCsvToDb_output(t[2]).exists
      [] t[1] = "GetCsvFile" ->
            unzipped[t[2]].exists /\ t[3] \in unzipped[t[2]].entries
      [] t[1] = "ValidMessages" -> ValidMessages_output(PathOf(t)).exists
      [] OTHER -> CopyToTable_exists(t)

\* requires(), were it to return nothing.
Requires_nothing(t) == {}

\* requires() of each task.
Requires(t) ==
    CASE t[1] = "ProcessZipArchives" -> {FolderTask}
      [] t[1] = "MakeAllIndices" -> {Root}
      [] t[1] = "UnzippedArchive" -> {Task("GetZipArchive", t[2], NoEntry)}
      [] t[1] = "ProcessCsv" -> {Task("UnzippedArchive", t[2], NoEntry)}
      [] t[1] = "WriteCsvToDb" -> {Task("UnzippedArchive", t[2], NoEntry)}
      [] t[1] = "ValidMessages" -> {Task("GetCsvFile", t[2], t[3])}
      [] t[1] = "ValidMessagesToDatabase" -> {Task("ValidMessages", t[2], t[3])}
      [] t[1] = "LoadCleanedAIS" -> {Task("ValidMessagesToDatabase", t[2], t[3])}
      [] OTHER -> {}

(***************************************************************************)
(* The worker: adding tasks, and which task may run.                       *)
(***************************************************************************)
\* Add, were complete() asked only of the tasks that require nothing.
RECURSIVE AddUnchecked(_, _)
AddUnchecked(st, ts) ==
    IF ts = {} THEN st
    ELSE LET t == CHOOSE x \in ts : TRUE
             rest == ts \ {t}
         IN  IF st[t] # "none" THEN AddUnchecked(st, rest)
             ELSE IF Complete(t) /\ Requires(t) = {}
             THEN AddUnchecked([st EXCEPT ![t] = "done"], rest)
             ELSE AddUnchecked([st EXCEPT ![t] = "pending"], rest \cup Requires(t))

\* A task that is added is checked once: complete -> DONE, its requirements
\* are not looked at; otherwise PENDING and its requirements are added.
RECURSIVE Add(_, _)
Add(st, ts) ==
    IF ts = {} THEN st
    ELSE LET t == CHOOSE x \in ts : TRUE
             rest == ts \ {t}
         IN  IF st[t] # "none" THEN Add(st, rest)
             ELSE IF Complete(t) THEN Add([st EXCEPT ![t] = "done"], rest)
             ELSE Add([st EXCEPT ![t] = "pending"], rest \cup Requires(t))

\* The tasks newly taken up between st0 and st1 whose Target existed then.
Existed(st0, st1) ==
    {t \in Tasks : st0[t] = "none" /\ st1[t] # "none" /\ TargetExists(t)}

Running == {t \in Tasks : status[t] = "running"}

\* A pending task runs once what it requires and what it yielded is DONE
\* and a worker is free.
Runnable(t) ==
    /\ inv.phase = "running"
    /\ status[t] = "pending"
    /\ \A r \in Requires(t) \cup dyn[t] : status[r] = "done"
    /\ Cardinality(Running) < Workers

\* run() starts only if the requirements are complete ("Unfulfilled
\* dependencies at run time" otherwise).
DepsComplete(t) == \A r \in Requires(t) : Complete(r)

\* What the worker reports of a task: a pending task one of whose
\* dependencies failed is reported as failed with them.
Outcome(t) ==
    IF status[t] = "pending" /\ \E c \in Requires(t) \cup dyn[t] : status[c] = "failed"
    THEN "failed"
    ELSE status[t]

NoFile == [exists |-> FALSE, content |-> {}]

NoFolder == [exists |-> FALSE, entries |-> {}]

NoData == [exists |-> FALSE, data |-> << >>]

\* A connection: where run() stands, the loop counter, the uncommitted
\* writes of the open transaction (data, marker, created), how far the input
\* file has been read, the outcome of each copy issued, how many table
\* creations were issued, the step at which run() raised, and the calls made
\* on the connection in their order.
IdleConn ==
    [pc |-> "idle", attempt |-> 0, data |-> << >>, marker |-> FALSE,
     created |-> FALSE, pos |-> 0, errs |-> << >>, ncreate |-> 0, raised |-> "",
     ops |-> << >>]

\* run() raises at a step: the connection is dropped with its transaction
\* uncommitted.
Abort(c, step) ==
    [c EXCEPT !.pc = "idle", !.data = << >>, !.marker = FALSE, !.created = FALSE,
              !.raised = step]

\* targets: the paths that exist under the working folder; ran: the tasks
\* whose run created their Target; skipped: the tasks found complete when
\* taken up; n: how many tasks were taken up.
NoWork == [targets |-> {}, ran |-> {}, skipped |-> {}, n |-> 0]

\* existed: the tasks whose Target existed when they were taken up; ran: the
\* tasks whose run was executed; calls: the argument lists the external
\* program was started with, per archive.
NoHist == [existed |-> {}, ran |-> {}, calls |-> [a \in ZipStems |-> << >>]]

Init ==
    /\ unzipped = [a \in ZipStems |-> NoFolder]
    /\ cleancsv = [e \in Entries |-> NoData]
    /\ processcsv = [a \in ZipStems |-> NoFile]
    /\ writecsv = [a \in ZipStems |-> NoFile]
    /\ archives = NoFile
    /\ indexes = [tb \in Tables |-> NoFile]
    /\ table_exists \in BOOLEAN
    /\ ais_clean = [p \in CsvPaths |-> << >>]
    /\ ais_sources = [p \in CsvPaths |-> 0]
    /\ pg_indexes = {}
    /\ table_updates = {}
    /\ status = [t \in Tasks |-> "none"]
    /\ dyn = [t \in Tasks |-> {}]
    /\ conn = [t \in ConnTasks |-> IdleConn]
    /\ inv = [n |-> 0, root |-> "ProcessZipArchives", with_db |-> FALSE,
              table |-> "ais_clean",
              phase |-> "idle", result |-> "none"]
    /\ hist = NoHist
    /\ work = NoWork
    /\ pg_trigger = FALSE

(***************************************************************************)
(* The entry point: luigi builds ProcessZipArchives(folder, script,        *)
(* with_db), or MakeAllIndices of the same parameters.  Tasks are made     *)
(* afresh; only the Targets persist.                                       *)
(***************************************************************************)
\* The task the invocation was asked for.
Asked ==
    Task(inv.root, IF inv.root = "MakeAllIndices" THEN inv.table ELSE "", NoEntry)

Invoke(root, with_db, table) ==
    /\ inv.phase = "idle"
    /\ inv.n < MaxInvocations
    /\ LET fresh == [t \in Tasks |-> "none"]
           asked == {Task(root, IF root = "MakeAllIndices" THEN table ELSE "", NoEntry)}
           inv1 == [n |-> inv.n + 1, root |-> root, with_db |-> with_db,
                    table |-> table,
                    phase |-> "running", result |-> "none"]
       IN  /\ inv' = inv1
           /\ status' = Add(fresh, asked)
           /\ hist' = [NoHist EXCEPT !.existed = Existed(fresh, Add(fresh, asked))]
    /\ UNCHANGED <<work, pg_trigger, fsvars, dbvars, dyn, conn>>

\* The invocation ends when nothing runs and nothing can run; it succeeded
\* iff the task asked for is DONE.  The process exits: what it knew of the tasks
\* is gone, the Targets stay.
Finish ==
    /\ inv.phase = "running"
    /\ Running = {}
    /\ \A t \in Tasks : ~Runnable(t)
    /\ inv' = [inv EXCEPT !.phase = "idle",
                          !.result = IF status[Asked] = "done" THEN "success"
                                     ELSE "failed"]
    /\ status' = [t \in Tasks |-> "none"]
    /\ dyn' = [t \in Tasks |-> {}]
    /\ conn' = [t \in ConnTasks |-> IdleConn]
    /\ hist' = NoHist
    /\ UNCHANGED <<work, pg_trigger, fsvars, dbvars>>

(***************************************************************************)
(* Steps every run shares.                                                 *)
(***************************************************************************)
Ran(t) == [hist EXCEPT !.ran = @ \cup {t}]

\* run() returned: the worker reports DONE.
Done(t) == status' = [status EXCEPT ![t] = "done"]

\* run() raised: the worker reports FAILED; nothing retries it.
Failed(t) == status' = [status EXCEPT ![t] = "failed"]

\* run() yielded tasks that are not all complete: they are added, and run()
\* is started over once they are DONE.
Yield(t, children) ==
    /\ status' = Add(status, children)
    /\ dyn' = [dyn EXCEPT ![t] = children]
    /\ hist' = [hist EXCEPT !.ran = @ \cup {t},
                            !.existed = @ \cup Existed(status, Add(status, children))]

(***************************************************************************)
(* UnzippedArchive: the external program, given the output folder itself.  *)
(***************************************************************************)
\* What the unzip program leaves at the output folder: on exit 0 the folder
\* with every entry; on another exit code whatever it had extracted.
unzip_csvs(a, code, k, made) ==
    IF code = 0 THEN [exists |-> TRUE, entries |-> Range(ArchiveContents(a))]
    ELSE [exists |-> made \/ k > 0, entries |-> Range(Prefix(ArchiveContents(a), k))]

\* program_args, were the folder beside the archive given as the output.
UnzippedArchive_program_args_out_root_dir(a) ==
    <<"unzip_csvs.sh", <<a, ".zip">>, <<"folder_of_zips", a>> >>

\* [self.shell_script, self.input().fn, output_folder]: the archive, and
\* files/unzipped/<archive stem>, the Target itself.
UnzippedArchive_program_args(a) ==
    <<"unzip_csvs.sh", <<a, ".zip">>, <<"unzipped", a>> >>

\* ExternalProgramTask.run: the program is started once with program_args;
\* an exit code other than 0 is raised.
UnzippedArchive_run(a) ==
    LET t == Task("UnzippedArchive", a, NoEntry)
        args == UnzippedArchive_program_args(a)
    IN
    /\ Runnable(t)
    /\ IF DepsComplete(t)
       THEN \E code \in {0, 1}, k \in 0..Len(ArchiveContents(a)), made \in BOOLEAN :
               /\ unzipped' = [x \in ZipStems |->
                                 IF <<"unzipped", x>> = args[3]
                                 THEN unzip_csvs(args[2][1], code, k, made)
                                 ELSE unzipped[x]]
               /\ IF code = 0 THEN Done(t) ELSE Failed(t)
               /\ hist' = [hist EXCEPT !.ran = @ \cup {t},
                                       !.calls[a] = Append(@, args)]
       ELSE /\ Failed(t)
            /\ UNCHANGED <<unzipped, hist>>
    /\ UNCHANGED <<work, pg_trigger, cleancsv, processcsv, writecsv, archives, indexes, dbvars, dyn,
                   conn, inv>>

(***************************************************************************)
(* ValidMessages: the cleaning, given the Target's own path to write to.   *)
(***************************************************************************)
\* The cleaned file of a raw csv file: the header and its valid messages.
CleanStream(p) == <<cols, CleanRow(p)>>

\* What the cleaning leaves at outfile: nothing if it fails before opening
\* it, the k records written so far if it fails later, all of them if not.
produce_valid_csv_file(p, old, outcome, k) ==
    CASE outcome = "ok" -> [exists |-> TRUE, data |-> CleanStream(p)]
      [] outcome = "late" -> [exists |-> TRUE, data |-> Prefix(CleanStream(p), k)]
      [] OTHER -> old

ValidMessages_run(p) ==
    LET t == Task("ValidMessages", p[1], p[2])
        outfile == basename(p)
    IN
    /\ Runnable(t)
    /\ IF DepsComplete(t)
       THEN \E outcome \in {"ok", "early", "late"}, k \in 0..(Len(CleanStream(p)) - 1) :
               /\ cleancsv' = [cleancsv EXCEPT
                                 ![outfile] = produce_valid_csv_file(p, @, outcome, k)]
               /\ IF outcome = "ok" THEN Done(t) ELSE Failed(t)
               /\ hist' = Ran(t)
       ELSE /\ Failed(t)
            /\ UNCHANGED <<cleancsv, hist>>
    /\ UNCHANGED <<work, pg_trigger, unzipped, processcsv, writecsv, archives, indexes, dbvars, dyn,
                   conn, inv>>

(***************************************************************************)
(* ProcessCsv, WriteCsvToDb, ProcessZipArchives: list, yield, write.       *)
(***************************************************************************)
\* The listing, were the extension not looked at.
list_of_allpaths(a) == {<<a, e>> : e \in unzipped[a].entries}

\* The csv files of the unzipped folder (os.listdir, extension '.csv').
list_of_csvpaths(a) ==
    {<<a, e>> : e \in {x \in unzipped[a].entries : splitext(x)[2] = ".csv"}}

\* The archives of the folder (extension '.zip').
list_of_archives == {e[1] : e \in {x \in FolderListing : splitext(x)[2] = ".zip"}}

ProcessCsv_run(a) ==
    LET t == Task("ProcessCsv", a, NoEntry)
        children == {Task("ValidMessages", p[1], p[2]) : p \in list_of_csvpaths(a)}
    IN
    /\ Runnable(t)
    /\ IF ~DepsComplete(t)
       THEN /\ Failed(t)
            /\ UNCHANGED hist
            /\ UNCHANGED <<processcsv, dyn>>
       ELSE IF \A c \in children : Complete(c)
       THEN /\ processcsv' = [processcsv EXCEPT
                                ![a] = [exists |-> TRUE, content |-> list_of_csvpaths(a)]]
            /\ Done(t)
            /\ dyn' = [dyn EXCEPT ![t] = children]
            /\ hist' = Ran(t)
       ELSE /\ Yield(t, children)
            /\ UNCHANGED processcsv
    /\ UNCHANGED <<work, pg_trigger, unzipped, cleancsv, writecsv, archives, indexes, dbvars, conn,
                   inv>>

WriteCsvToDb_run(a) ==
    LET t == Task("WriteCsvToDb", a, NoEntry)
        children == {Task("LoadCleanedAIS", p[1], p[2]) : p \in list_of_csvpaths(a)}
    IN
    /\ Runnable(t)
    /\ IF ~DepsComplete(t)
       THEN /\ Failed(t)
            /\ UNCHANGED hist
            /\ UNCHANGED <<writecsv, dyn>>
       ELSE IF \A c \in children : Complete(c)
       THEN /\ writecsv' = [writecsv EXCEPT
                              ![a] = [exists |-> TRUE, content |-> list_of_csvpaths(a)]]
            /\ Done(t)
            /\ dyn' = [dyn EXCEPT ![t] = children]
            /\ hist' = Ran(t)
       ELSE /\ Yield(t, children)
            /\ UNCHANGED writecsv
    /\ UNCHANGED <<work, pg_trigger, unzipped, cleancsv, processcsv, archives, indexes, dbvars, conn,
                   inv>>

\* The folder marker, were the archives written to it.
ProcessZipArchives_written_archives == list_of_archives

\* outfile.write("{}".format(self.folder_of_zips)): the folder's own path.
ProcessZipArchives_written == {"folder_of_zips"}

\* The yield of the entry point, were its list empty.
ProcessZipArchives_children_none(with_db) == {}

\* The tasks the entry point yields, one per archive.
ProcessZipArchives_children(with_db) ==
    IF with_db
    THEN {Task("WriteCsvToDb", a, NoEntry) : a \in list_of_archives}
    ELSE {Task("ProcessCsv", a, NoEntry) : a \in list_of_archives}

ProcessZipArchives_run ==
    LET t == Root
        children == ProcessZipArchives_children(inv.with_db)
    IN
    /\ Runnable(t)
    /\ IF ~DepsComplete(t)
       THEN /\ Failed(t)
            /\ UNCHANGED hist
            /\ UNCHANGED <<archives, dyn>>
       ELSE IF \A c \in children : Complete(c)
       THEN /\ archives' = [exists |-> TRUE, content |-> ProcessZipArchives_written]
            /\ Done(t)
            /\ dyn' = [dyn EXCEPT ![t] = children]
            /\ hist' = Ran(t)
       ELSE /\ Yield(t, children)
            /\ UNCHANGED archives
    /\ UNCHANGED <<work, pg_trigger, unzipped, cleancsv, processcsv, writecsv, indexes, dbvars, conn,
                   inv>>

(***************************************************************************)
(* MakeAllIndices and MakeIndexByQuery.                                    *)
(***************************************************************************)
\* outfile.write(self.table): the name of the table.
MakeAllIndices_written(table) == {table}

\* The yield of MakeAllIndices, were its list empty.
MakeAllIndices_children_none(table) == {}

\* One CREATE INDEX IF NOT EXISTS query per entry of the specification of
\* the table: clean_db_spec['indices'] or dirty_db_spec['indices'].
MakeAllIndices_children(table) ==
    LET indices == IF table = "ais_clean" THEN Indices ELSE DirtyIndices
    IN  {Task("MakeIndexByQuery", table, <<idx, "">>) : idx \in indices}

\* A table that is neither ais_clean nor ais_dirty: run raises before any
\* query is made.
MakeAllIndices_run(table) ==
    LET t == Task("MakeAllIndices", table, NoEntry)
        children == MakeAllIndices_children(table)
    IN
    /\ Runnable(t)
    /\ IF ~DepsComplete(t)
       THEN /\ Failed(t)
            /\ UNCHANGED hist
            /\ UNCHANGED <<indexes, dyn>>
       ELSE IF table \notin {"ais_clean", "ais_dirty"}
       THEN /\ Failed(t)
            /\ hist' = Ran(t)
            /\ UNCHANGED <<indexes, dyn>>
       ELSE IF \A c \in children : Complete(c)
       THEN /\ indexes' = [indexes EXCEPT
                             ![table] = [exists |-> TRUE,
                                         content |-> MakeAllIndices_written(table)]]
            /\ Done(t)
            /\ dyn' = [dyn EXCEPT ![t] = children]
            /\ hist' = Ran(t)
       ELSE /\ Yield(t, children)
            /\ UNCHANGED indexes
    /\ UNCHANGED <<work, pg_trigger, unzipped, cleancsv, processcsv, writecsv, archives, dbvars, conn,
                   inv>>

\* PostgresQuery.run: connect, execute the query, touch the marker with the
\* same connection.  The query needs the relation.
MakeIndexByQuery_run(table, idx) ==
    LET t == Task("MakeIndexByQuery", table, <<idx, "">>) IN
    /\ Runnable(t)
    /\ \E ok \in BOOLEAN :
          IF ok /\ (table = "ais_clean" => table_exists)
          THEN /\ status' = [status EXCEPT ![t] = "running"]
               /\ conn' = [conn EXCEPT ![t] =
                             [IdleConn EXCEPT !.pc = "commit", !.marker = TRUE,
                                              !.data = << <<table, idx>> >>]]
          ELSE /\ Failed(t)
               /\ conn' = [conn EXCEPT ![t] = Abort(IdleConn, "execute")]
    /\ hist' = Ran(t)
    /\ UNCHANGED <<work, pg_trigger, fsvars, dbvars, dyn, inv>>

\* connection.commit(); connection.close(): an index that exists is left as
\* it is (IF NOT EXISTS).
MakeIndexByQuery_commit(table, idx) ==
    LET t == Task("MakeIndexByQuery", table, <<idx, "">>)
        c == conn[t]
    IN
    /\ status[t] = "running"
    /\ c.pc = "commit"
    /\ \E ok \in BOOLEAN :
          IF ok
          THEN /\ pg_indexes' = pg_indexes \cup {c.data[i] : i \in 1..Len(c.data)}
               /\ table_updates' = IF c.marker THEN table_updates \cup {t}
                                   ELSE table_updates
               /\ conn' = [conn EXCEPT ![t] = [c EXCEPT !.pc = "idle"]]
               /\ Done(t)
          ELSE /\ conn' = [conn EXCEPT ![t] = Abort(c, "commit")]
               /\ Failed(t)
               /\ UNCHANGED <<pg_indexes, table_updates>>
    /\ UNCHANGED <<work, pg_trigger, fsvars, table_exists, ais_clean, ais_sources, dyn, inv, hist>>

(***************************************************************************)
(* The database as one connection sees it, and COPY.                       *)
(***************************************************************************)
Null == "NULL"

\* null_values = (None, ""): an empty field is NULL.
Field(f) == IF f = "" THEN Null ELSE f

Record(r) == [i \in 1..Len(r) |-> Field(r[i])]

\* COPY, were the header line compared with the column list (HEADER MATCH).
copy_expert_match(visible, rest) ==
    LET body == IF rest = << >> THEN << >> ELSE Tail(rest) IN
    IF ~visible THEN [code |-> "UNDEFINED_TABLE", rows |-> << >>]
    ELSE IF \/ rest = << >>
            \/ [i \in 1..Len(Head(rest)) |-> lower(Head(rest)[i])] # columns
            \/ \E i \in 1..Len(body) : Len(body[i]) # Len(columns)
    THEN [code |-> "BAD_COPY_FILE_FORMAT", rows |-> << >>]
    ELSE [code |-> "ok", rows |-> [i \in 1..Len(body) |-> Record(body[i])]]

\* COPY table (columns) FROM STDIN WITH (FORMAT csv, HEADER true) on the
\* records the file object still has to give: the relation must exist; the
\* first record is skipped as the header line, whatever it holds; every
\* other record must have one field per column.
copy_expert(visible, rest) ==
    LET body == IF rest = << >> THEN << >> ELSE Tail(rest) IN
    IF ~visible THEN [code |-> "UNDEFINED_TABLE", rows |-> << >>]
    ELSE IF \E i \in 1..Len(body) : Len(body[i]) # Len(columns)
    THEN [code |-> "BAD_COPY_FILE_FORMAT", rows |-> << >>]
    ELSE [code |-> "ok", rows |-> [i \in 1..Len(body) |-> Record(body[i])]]

\* How many records a failed copy has read from the file object: none when
\* the statement is refused before the copy starts; the header line, the
\* first row and any number of the records after it when it fails while
\* the rows are processed.
Consumed(late, rest) == IF late THEN 2..Len(rest) ELSE {0}

\* for attempt in range(2)
Attempts == 2

\* The except clause, were the attempt not looked at.
CreatesTableAlways(code, attempt) == code = "UNDEFINED_TABLE"

\* The except clause, were the error code not looked at.
CreatesTableOnAnyError(code, attempt) == attempt = 0

\* The except clause, were it to raise whatever the error.
CreatesTableNever(code, attempt) == FALSE

\* The except clause that creates the table instead of raising.
CreatesTable(code, attempt) == code = "UNDEFINED_TABLE" /\ attempt = 0

\* touch() called without the connection of run().
touch_own_connection == "none"

\* The connection touch() is given: the one of run(), so the marker row is
\* part of its transaction.  Given none, touch() opens its own connection
\* with autocommit on.
touch_connection == "connection"

(***************************************************************************)
(* ValidMessagesToDatabase.run                                             *)
(***************************************************************************)
\* One pass of the loop: self.copy(cursor, csvfile) and the except clause.
\* The first pass follows connect() and the opening of the input file.
\* other: the copy fails with another error, here a column of the list that
\* the relation has not (UNDEFINED_COLUMN, a ProgrammingError as well).
ValidMessagesToDatabase_copy(p) ==
    LET t == Task("ValidMessagesToDatabase", p[1], p[2])
        first == status[t] = "pending"
        c == IF first THEN [IdleConn EXCEPT !.pc = "copy"] ELSE conn[t]
        file == cleancsv[basename(p)].data
        rest == SubSeq(file, c.pos + 1, Len(file))
        res == copy_expert(table_exists \/ c.created, rest)
        code(other, late) ==
            IF other THEN "UNDEFINED_COLUMN"
            ELSE IF late THEN "UNDEFINED_TABLE" ELSE res.code
    IN
    /\ \/ Runnable(t)
       \/ status[t] = "running" /\ conn[t].pc = "copy"
    /\ \E other \in BOOLEAN, made \in BOOLEAN, late \in {FALSE, pg_trigger} :
       \E k \in Consumed(late, rest) :
          IF first /\ ~DepsComplete(t)
          THEN /\ ~late
               /\ Failed(t)
               /\ UNCHANGED <<conn, hist>>
          ELSE IF late /\ (other \/ res.code # "ok" \/ res.rows = << >>)
          THEN FALSE
          ELSE IF code(other, late) = "ok"
          THEN /\ conn' = [conn EXCEPT ![t] =
                             [c EXCEPT !.pc = "touch", !.data = Append(@, res.rows),
                                       !.pos = Len(file), !.errs = Append(@, "ok"),
                                       !.ops = Append(@, "copy")]]
               /\ status' = [status EXCEPT ![t] = "running"]
               /\ hist' = Ran(t)
          ELSE IF CreatesTable(code(other, late), c.attempt)
          THEN \* connection.reset(); self.create_table(connection)
               /\ conn' = [conn EXCEPT ![t] =
                             [c EXCEPT !.pc = IF c.attempt + 1 < Attempts
                                              THEN "copy" ELSE "touch",
                                       !.attempt = @ + 1, !.data = << >>,
                                       !.marker = FALSE, !.created = made,
                                       !.pos = @ + k,
                                       !.errs = Append(@, code(other, late)),
                                       !.ncreate = @ + 1,
                                       !.ops = @ \o <<"copy", "reset", "create_table">>]]
               /\ status' = [status EXCEPT ![t] = "running"]
               /\ hist' = Ran(t)
          ELSE /\ conn' = [conn EXCEPT ![t] =
                             [Abort(c, "copy") EXCEPT
                                !.pos = @ + k,
                                !.errs = Append(@, code(other, late)),
                                !.ops = Append(@, "copy")]]
               /\ Failed(t)
               /\ hist' = Ran(t)
    /\ UNCHANGED <<work, pg_trigger, fsvars, dbvars, dyn, inv>>

\* self.output().touch(connection): the marker row.
ValidMessagesToDatabase_touch(p) ==
    LET t == Task("ValidMessagesToDatabase", p[1], p[2])
        c == conn[t]
    IN
    /\ status[t] = "running"
    /\ c.pc = "touch"
    /\ \E ok \in BOOLEAN :
          IF ok
          THEN /\ conn' = [conn EXCEPT ![t] =
                             [c EXCEPT !.pc = "commit",
                                       !.marker = (touch_connection = "connection"),
                                       !.ops = Append(@, "touch")]]
               /\ table_updates' = IF touch_connection = "connection"
                                   THEN table_updates ELSE table_updates \cup {t}
               /\ UNCHANGED status
          ELSE /\ conn' = [conn EXCEPT ![t] = Abort(c, "touch")]
               /\ Failed(t)
               /\ UNCHANGED table_updates
    /\ UNCHANGED <<work, pg_trigger, fsvars, table_exists, ais_clean, ais_sources, pg_indexes, dyn, inv,
                   hist>>

\* connection.commit(); connection.close()
ValidMessagesToDatabase_commit(p) ==
    LET t == Task("ValidMessagesToDatabase", p[1], p[2])
        c == conn[t]
    IN
    /\ status[t] = "running"
    /\ c.pc = "commit"
    /\ \E ok \in BOOLEAN :
          IF ok
          THEN /\ ais_clean' = [ais_clean EXCEPT ![p] = @ \o c.data]
               /\ table_updates' = IF c.marker THEN table_updates \cup {t}
                                   ELSE table_updates
               /\ table_exists' = (table_exists \/ c.created)
               /\ conn' = [conn EXCEPT ![t] =
                             [c EXCEPT !.pc = "idle", !.ops = Append(@, "commit")]]
               /\ Done(t)
          ELSE /\ conn' = [conn EXCEPT ![t] = Abort(c, "commit")]
               /\ Failed(t)
               /\ UNCHANGED <<ais_clean, table_updates, table_exists>>
    /\ UNCHANGED <<work, pg_trigger, fsvars, ais_sources, pg_indexes, dyn, inv, hist>>

(***************************************************************************)
(* LoadCleanedAIS.run                                                      *)
(***************************************************************************)
\* The row of ais_sources: filename, ext, invalid, clean, dirty, source.
source_data(p) == <<p, splitext(p[2])[2], 0, 0, 0, 0>>

\* connect, INSERT INTO ais_sources, and self.output().touch(connection):
\* the row and the marker, in the open transaction.
LoadCleanedAIS_insert(p) ==
    LET t == Task("LoadCleanedAIS", p[1], p[2]) IN
    /\ Runnable(t)
    /\ \E ok \in BOOLEAN :
          IF ~DepsComplete(t)
          THEN /\ Failed(t)
               /\ UNCHANGED <<conn, hist>>
          ELSE IF ok
          THEN /\ status' = [status EXCEPT ![t] = "running"]
               /\ conn' = [conn EXCEPT ![t] =
                             [IdleConn EXCEPT !.pc = "commit", !.marker = TRUE,
                                              !.data = <<source_data(p)>>]]
               /\ hist' = Ran(t)
          ELSE /\ Failed(t)
               /\ conn' = [conn EXCEPT ![t] = Abort(IdleConn, "insert")]
               /\ hist' = Ran(t)
    /\ UNCHANGED <<work, pg_trigger, fsvars, dbvars, dyn, inv>>

\* connection.commit(); connection.close()
LoadCleanedAIS_commit(p) ==
    LET t == Task("LoadCleanedAIS", p[1], p[2])
        c == conn[t]
    IN
    /\ status[t] = "running"
    /\ c.pc = "commit"
    /\ \E ok \in BOOLEAN :
          IF ok
          THEN /\ ais_sources' = [ais_sources EXCEPT ![c.data[1][1]] = @ + Len(c.data)]
               /\ table_updates' = IF c.marker THEN table_updates \cup {t}
                                   ELSE table_updates
               /\ conn' = [conn EXCEPT ![t] = [c EXCEPT !.pc = "idle"]]
               /\ Done(t)
          ELSE /\ conn' = [conn EXCEPT ![t] = Abort(c, "commit")]
               /\ Failed(t)
               /\ UNCHANGED <<ais_sources, table_updates>>
    /\ UNCHANGED <<work, pg_trigger, fsvars, ais_clean, table_exists, pg_indexes, dyn, inv, hist>>

Next ==
    \/ \E root \in RootKinds, with_db \in BOOLEAN : Invoke(root, with_db, "ais_clean")
    \/ Finish
    \/ \E a \in ZipStems : UnzippedArchive_run(a)
    \/ \E p \in CsvPaths : ValidMessages_run(p)
    \/ \E a \in ZipStems : ProcessCsv_run(a)
    \/ \E a \in ZipStems : WriteCsvToDb_run(a)
    \/ ProcessZipArchives_run
    \/ MakeAllIndices_run("ais_clean")
    \/ \E idx \in Indices : MakeIndexByQuery_run("ais_clean", idx)
    \/ \E idx \in Indices : MakeIndexByQuery_commit("ais_clean", idx)
    \/ \E p \in CsvPaths : ValidMessagesToDatabase_copy(p)
    \/ \E p \in CsvPaths : ValidMessagesToDatabase_touch(p)
    \/ \E p \in CsvPaths : ValidMessagesToDatabase_commit(p)
    \/ \E p \in CsvPaths : LoadCleanedAIS_insert(p)
    \/ \E p \in CsvPaths : LoadCleanedAIS_commit(p)

Spec == Init /\ [][Next]_vars

(***************************************************************************)
(* The bulk load on any source: files/cleancsv/x.csv is found holding any  *)
(* stream of records when the load of a1/x.csv is about to run.            *)
(***************************************************************************)
\* Records a stream may hold after its first.
MaxRows == 2

HeaderChoices == {cols, columns, <<"Time", "MMSI">>, <<"MMSI">>, <<"1", "">>}

RowChoices == {<<"1", "">>, <<"2", "7">>, <<"3">>}

Streams ==
    {<< >>} \cup
    {<<h>> \o r : h \in HeaderChoices,
                  r \in UNION {[1..k -> RowChoices] : k \in 0..MaxRows}}

X == <<"a1", <<"x", ".csv">> >>

LoadAboutToRun ==
    /\ unzipped = [a \in ZipStems |->
                     IF a \in list_of_archives
                     THEN [exists |-> TRUE, entries |-> Range(ArchiveContents(a))]
                     ELSE NoFolder]
    /\ \E src \in Streams :
          cleancsv = [e \in Entries |->
                        IF e = basename(X) THEN [exists |-> TRUE, data |-> src]
                        ELSE NoData]
    /\ processcsv = [a \in ZipStems |-> NoFile]
    /\ writecsv = [a \in ZipStems |-> NoFile]
    /\ archives = NoFile
    /\ indexes = [tb \in Tables |-> NoFile]
    /\ table_exists \in BOOLEAN
    /\ ais_clean = [p \in CsvPaths |-> << >>]
    /\ ais_sources = [p \in CsvPaths |-> 0]
    /\ pg_indexes = {}
    /\ table_updates = {}
    /\ inv = [n |-> 1, root |-> "ProcessZipArchives", with_db |-> TRUE,
              table |-> "ais_clean",
              phase |-> "running", result |-> "none"]
    /\ LET wc == Task("WriteCsvToDb", "a1", NoEntry)
           loads == {Task("LoadCleanedAIS", p[1], p[2]) : p \in list_of_csvpaths("a1")}
           st0 == [t \in Tasks |-> "none"]
           st1 == Add(st0, {Root})
           st2 == Add(st1, ProcessZipArchives_children(TRUE))
           st3 == Add(st2, loads)
       IN  /\ status = st3
           /\ dyn = [t \in Tasks |->
                       IF t = Root THEN ProcessZipArchives_children(TRUE)
                       ELSE IF t = wc THEN loads ELSE {}]
           /\ hist = [NoHist EXCEPT !.existed = Existed(st0, st3), !.ran = {Root, wc}]
    /\ conn = [t \in ConnTasks |-> IdleConn]
    /\ work = NoWork

InitCopy == LoadAboutToRun /\ pg_trigger = FALSE

NextCopy ==
    \/ \E p \in CsvPaths : ValidMessagesToDatabase_copy(p)
    \/ \E p \in CsvPaths : ValidMessagesToDatabase_touch(p)
    \/ \E p \in CsvPaths : ValidMessagesToDatabase_commit(p)
    \/ \E p \in CsvPaths : LoadCleanedAIS_insert(p)
    \/ \E p \in CsvPaths : LoadCleanedAIS_commit(p)

SpecCopy == InitCopy /\ [][NextCopy]_vars

(***************************************************************************)
(* The bulk load on a relation that may have a row trigger referring to a  *)
(* relation that does not exist: the copy is then accepted, and fails      *)
(* with UNDEFINED_TABLE while its rows are processed.                      *)
(***************************************************************************)
InitRetry ==
    /\ LoadAboutToRun
    /\ pg_trigger \in BOOLEAN
    /\ pg_trigger => table_exists

SpecRetry == InitRetry /\ [][NextCopy]_vars

(***************************************************************************)
(* The index stage on any table: MakeAllIndices is asked for after an      *)
(* invocation with with_db = true has loaded the folder; some of the       *)
(* indices may exist already, made outside the pipeline.                   *)
(***************************************************************************)
InitIndex ==
    /\ unzipped = [a \in ZipStems |->
                     IF a \in list_of_archives
                     THEN [exists |-> TRUE, entries |-> Range(ArchiveContents(a))]
                     ELSE NoFolder]
    /\ cleancsv = [e \in Entries |->
                     IF \E p \in SourceCsvs : p[2] = e
                     THEN [exists |-> TRUE, data |-> CleanStream(<<"a1", e>>)]
                     ELSE NoData]
    /\ processcsv = [a \in ZipStems |-> NoFile]
    /\ writecsv = [a \in ZipStems |->
                     IF a \in list_of_archives
                     THEN [exists |-> TRUE,
                           content |-> {p \in SourceCsvs : p[1] = a}]
                     ELSE NoFile]
    /\ archives = [exists |-> TRUE, content |-> ProcessZipArchives_written]
    /\ indexes = [tb \in Tables |-> NoFile]
    /\ table_exists = TRUE
    /\ ais_clean = [p \in CsvPaths |->
                      IF p \in SourceCsvs THEN << <<Record(CleanRow(p))>> >> ELSE << >>]
    /\ ais_sources = [p \in CsvPaths |-> IF p \in SourceCsvs THEN 1 ELSE 0]
    /\ pg_indexes \in SUBSET TableIndices
    /\ table_updates =
          {Task(k, p[1], p[2]) : k \in DbKinds, p \in SourceCsvs}
    /\ status = [t \in Tasks |-> "none"]
    /\ dyn = [t \in Tasks |-> {}]
    /\ conn = [t \in ConnTasks |-> IdleConn]
    /\ inv = [n |-> 0, root |-> "ProcessZipArchives", with_db |-> TRUE,
              table |-> "ais_clean", phase |-> "idle", result |-> "success"]
    /\ hist = NoHist
    /\ work = NoWork
    /\ pg_trigger = FALSE

NextIndex ==
    \/ \E tb \in Tables : Invoke("MakeAllIndices", TRUE, tb)
    \/ Finish
    \/ \E tb \in Tables : MakeAllIndices_run(tb)
    \/ \E x \in TableIndices : MakeIndexByQuery_run(x[1], x[2])
    \/ \E x \in TableIndices : MakeIndexByQuery_commit(x[1], x[2])

SpecIndex == InitIndex /\ [][NextIndex]_vars

(***************************************************************************)
(* The paths of the Targets: output() of the tasks with a LocalTarget, on   *)
(* full paths.  A path is the sequence of its directories and its last      *)
(* component, a name split as (stem, extension).                            *)
(***************************************************************************)
\* How many tasks are taken up.
MaxTakes == 4

\* The working folder (LUIGIWORK).
get_working_folder == <<"work">>

os_path_join(dir, name) == [dir |-> dir, name |-> name]

os_path_split(path) == <<path.dir, path.name>>

os_path_basename(path) == path.name

\* Archives a recursive listing of one folder of archives finds: two of the
\* same name in different subfolders, and one of another name.
ZipFiles ==
    {os_path_join(<<"zips", "2013">>, <<"jan", ".zip">>),
     os_path_join(<<"zips", "2014">>, <<"jan", ".zip">>),
     os_path_join(<<"zips", "2014">>, <<"feb", ".zip">>)}

\* Raw csv files of two unzipped archives: one name in both archives, and
\* another name in one of them.
RawCsvFiles ==
    {os_path_join(get_working_folder \o <<"files", "unzipped", "jan">>, <<"x", ".csv">>),
     os_path_join(get_working_folder \o <<"files", "unzipped", "feb">>, <<"x", ".csv">>),
     os_path_join(get_working_folder \o <<"files", "unzipped", "feb">>, <<"y", ".csv">>)}

\* Folders of archives: two of the same name under different parents, and
\* one of another name.
ArchiveFolders ==
    {os_path_join(<<"data">>, <<"zips", "">>),
     os_path_join(<<"backup">>, <<"zips", "">>),
     os_path_join(<<"data">>, <<"more", "">>)}

\* files/unzipped/<folder name>: the archive's path without its extension,
\* and of that the last component.
UnzippedArchive_output_fn(zip_file) ==
    LET out_root_dir == [zip_file EXCEPT !.name = <<splitext(zip_file.name)[1], "">>]
        out_folder_name == os_path_split(out_root_dir)[2]
    IN  os_path_join(get_working_folder \o <<"files", "unzipped">>, out_folder_name)

\* tmp/processcsv/<name>: the archive's file name without its extension.
ProcessCsv_output_fn(zip_file) ==
    LET filename == os_path_split(zip_file)[2]
        name == <<splitext(filename)[1], "">>
    IN  os_path_join(get_working_folder \o <<"tmp", "processcsv">>, name)

\* tmp/writecsv/<name>: the archive's file name without its extension.
WriteCsvToDb_output_fn(zip_file) ==
    LET filename == os_path_split(zip_file)[2]
        name == <<splitext(filename)[1], "">>
    IN  os_path_join(get_working_folder \o <<"tmp", "writecsv">>, name)

\* files/cleancsv/<name>: the base name of the raw csv file.
ValidMessages_output_fn(csvfile) ==
    os_path_join(get_working_folder \o <<"files", "cleancsv">>, os_path_basename(csvfile))

\* tmp/archives/<name>: the base name of the folder of archives.
ProcessZipArchives_output_fn(folder_of_zips) ==
    os_path_join(get_working_folder \o <<"tmp", "archives">>,
                 os_path_basename(folder_of_zips))

\* The tasks with a LocalTarget, by kind and parameter.
PathTasks ==
    ({"UnzippedArchive", "ProcessCsv", "WriteCsvToDb"} \X ZipFiles)
        \cup ({"ValidMessages"} \X RawCsvFiles)
        \cup ({"ProcessZipArchives"} \X ArchiveFolders)

output_fn(t) ==
    CASE t[1] = "UnzippedArchive" -> UnzippedArchive_output_fn(t[2])
      [] t[1] = "ProcessCsv" -> ProcessCsv_output_fn(t[2])
      [] t[1] = "WriteCsvToDb" -> WriteCsvToDb_output_fn(t[2])
      [] t[1] = "ValidMessages" -> ValidMessages_output_fn(t[2])
      [] t[1] = "ProcessZipArchives" -> ProcessZipArchives_output_fn(t[2])

\* The worker takes a task up: one whose Target exists is complete and is
\* not run; any other is run and leaves its Target.
TakeUp(t) ==
    /\ work.n < MaxTakes
    /\ work' = IF output_fn(t) \in work.targets
               THEN [work EXCEPT !.skipped = @ \cup {t}, !.n = @ + 1]
               ELSE [work EXCEPT !.targets = @ \cup {output_fn(t)},
                                 !.ran = @ \cup {t}, !.n = @ + 1]
    /\ UNCHANGED <<fsvars, dbvars, status, dyn, conn, inv, hist, pg_trigger>>

NextPaths == \E t \in PathTasks : TakeUp(t)

SpecPaths == Init /\ [][NextPaths]_vars

(***************************************************************************)
(* Properties                                                              *)
(***************************************************************************)
VMTD(p) == Task("ValidMessagesToDatabase", p[1], p[2])

LCA(p) == Task("LoadCleanedAIS", p[1], p[2])

VM(p) == Task("ValidMessages", p[1], p[2])

\* C1 (idempotency): a task whose Target exists when it is resolved is
\* reported done and its run operation is never executed in that invocation
\* (only run operations write); and an invocation whose top-level task is
\* already complete changes no file and no table.
C1_Idempotent ==
    [][ /\ \A t \in hist'.existed : status'[t] = "done" /\ t \notin hist'.ran
        /\ (inv.phase = "running" /\ Asked \in hist.existed)
              => UNCHANGED <<fsvars, dbvars>> ]_vars

\* An invocation of MakeAllIndices in which the folder marker was found
\* complete, so that nothing below it was taken up, and MakeAllIndices and
\* its index query had to run.
C1_Witness ==
    /\ inv.phase = "running"
    /\ inv.root = "MakeAllIndices"
    /\ Root \in hist.existed
    /\ hist.ran = {IndexRoot} \cup MakeAllIndices_children("ais_clean")
    /\ status[IndexRoot] = "done"

\* C2 (atomicity of load and marker): in every state the marker row of a
\* load is committed iff its copied data is; a load reported done has its
\* marker; and after a failure of the marker step neither is committed.
C2_Atomic ==
    \A p \in CsvPaths :
        /\ VMTD(p) \in table_updates <=> ais_clean[p] # << >>
        /\ status[VMTD(p)] = "done" => VMTD(p) \in table_updates
        /\ conn[VMTD(p)].raised \in {"copy", "touch", "commit"}
              => VMTD(p) \notin table_updates /\ ais_clean[p] = << >>

\* The marker step of a load failed after its copy had succeeded.
C2_Witness ==
    \E p \in CsvPaths :
        /\ conn[VMTD(p)].raised = "touch"
        /\ conn[VMTD(p)].errs = <<"ok">>
        /\ status[VMTD(p)] = "failed"

\* C3 (bounded retry): a load issues at most two copies and at most one
\* table creation; when both copies fail with "table missing" the load has
\* failed at the second copy and neither marker nor data is committed.
C3_BoundedRetry ==
    \A p \in CsvPaths :
        LET c == conn[VMTD(p)] IN
        /\ Len(c.errs) <= 2
        /\ c.ncreate <= 1
        /\ c.errs = <<"UNDEFINED_TABLE", "UNDEFINED_TABLE">>
              => /\ status[VMTD(p)] = "failed"
                 /\ c.raised = "copy"
                 /\ VMTD(p) \notin table_updates
                 /\ ais_clean[p] = << >>

\* Both copies of a load failed with "table missing".
C3_Witness ==
    \E p \in CsvPaths :
        /\ conn[VMTD(p)].errs = <<"UNDEFINED_TABLE", "UNDEFINED_TABLE">>
        /\ conn[VMTD(p)].ncreate = 1

\* The files with extension .csv of the unzipped folder of an archive.
FolderCsvFiles(a) == {e \in unzipped[a].entries : e[2] = ".csv"}

\* The unzipped folder of every archive holds every entry of its archive.
AllUnzipped ==
    \A e \in FolderListing :
        e[2] = ".zip" =>
            unzipped[e[1]] = [exists |-> TRUE, entries |-> Range(ArchiveContents(e[1]))]

\* The last invocation, of ProcessZipArchives, reported success.
Succeeded(with_db) ==
    /\ inv.phase = "idle" /\ inv.result = "success"
    /\ inv.root = "ProcessZipArchives" /\ inv.with_db = with_db

\* C4 (partial-failure isolation): in a fan-out group the Target of a file
\* whose validation succeeded is complete, and the Target of a file whose
\* validation failed is not, nor is the manifest of the parent.
C4_FailedBranchIncomplete ==
    \A a \in ZipStems :
        \A p \in list_of_csvpaths(a) :
            /\ status[VM(p)] = "done" => ValidMessages_output(p).exists
            /\ status[VM(p)] = "failed"
                  => /\ ~ValidMessages_output(p).exists
                     /\ ~ProcessCsv_output(a).exists
                     /\ ~WriteCsvToDb_output(a).exists

\* C5 (fan-out completeness): a per-archive task that has run has yielded
\* exactly one validation task (ProcessCsv) or one load task (WriteCsvToDb)
\* per csv file of the unzipped folder, N in all, and a manifest lists
\* exactly those N paths.
C5_FanOut ==
    \A a \in ZipStems :
        LET files == FolderCsvFiles(a)
            N == Cardinality(files)
            pc == Task("ProcessCsv", a, NoEntry)
            wc == Task("WriteCsvToDb", a, NoEntry)
        IN
        /\ pc \in hist.ran
              => dyn[pc] = {VM(<<a, e>>) : e \in files} /\ Cardinality(dyn[pc]) = N
        /\ wc \in hist.ran
              => dyn[wc] = {LCA(<<a, e>>) : e \in files} /\ Cardinality(dyn[wc]) = N
        /\ ProcessCsv_output(a).exists
              => /\ ProcessCsv_output(a).content = {<<a, e>> : e \in files}
                 /\ Cardinality(ProcessCsv_output(a).content) = N
        /\ WriteCsvToDb_output(a).exists
              => /\ WriteCsvToDb_output(a).content = {<<a, e>> : e \in files}
                 /\ Cardinality(WriteCsvToDb_output(a).content) = N

\* The load manifest of a folder of two csv files and one other file is
\* written, after both load tasks were yielded.
C5_Witness ==
    /\ <<"readme", ".txt">> \in unzipped["a1"].entries
    /\ Task("WriteCsvToDb", "a1", NoEntry) \in hist.ran
    /\ Cardinality(dyn[Task("WriteCsvToDb", "a1", NoEntry)]) = 2
    /\ WriteCsvToDb_output("a1").exists
    /\ Cardinality(WriteCsvToDb_output("a1").content) = 2

\* C6 (entry point with loading enabled): once an invocation with
\* with_db = true has reported success, every csv file of every archive has
\* its bulk-load marker and its bookkeeping marker.  Stated for the folders
\* that were unzipped in full.
C6_LoadedOnSuccess ==
    (Succeeded(TRUE) /\ AllUnzipped)
        => \A p \in SourceCsvs : VMTD(p) \in table_updates /\ LCA(p) \in table_updates

\* C7 (entry point with loading disabled): an invocation with
\* with_db = false schedules no load task and leaves the database unchanged,
\* and once it has reported success a cleaned csv Target exists for every
\* csv file of every archive.
C7_DisabledCleansAll ==
    [][ /\ (inv.phase = "running" /\ inv.root = "ProcessZipArchives" /\ ~inv.with_db)
              => /\ \A t \in DbTasks : status'[t] = "none"
                 /\ UNCHANGED dbvars
        /\ (/\ inv'.phase = "idle" /\ inv'.result = "success"
            /\ inv'.root = "ProcessZipArchives" /\ ~inv'.with_db)
              => \A p \in SourceCsvs : cleancsv'[basename(p)].exists ]_vars

\* C8 (resume safety of file-backed Targets): an unzip that failed leaves no
\* unzipped folder and a validation that failed leaves no cleaned file.
C8_FailureLeavesNoTarget ==
    /\ \A a \in ZipStems :
          status[Task("UnzippedArchive", a, NoEntry)] = "failed"
              => ~UnzippedArchive_output(a).exists
    /\ \A p \in CsvPaths :
          status[VM(p)] = "failed" => ~ValidMessages_output(p).exists

\* C9 (bookkeeping exactly once): no source file is ever recorded twice, and
\* once an invocation with with_db = true has reported success ais_sources
\* holds one row per source csv file, each has its cleaned csv Target and
\* each archive its manifest.  Stated for the folders unzipped in full.
C9_OneRowPerSource ==
    /\ \A p \in CsvPaths : ais_sources[p] <= 1
    /\ (Succeeded(TRUE) /\ AllUnzipped)
          => /\ \A p \in SourceCsvs : ais_sources[p] = 1 /\ cleancsv[basename(p)].exists
             /\ \A a \in list_of_archives : WriteCsvToDb_output(a).exists

\* The first record of a file is the column list, up to case.
HeaderMatches(file) ==
    /\ file # << >>
    /\ [i \in 1..Len(file[1]) |-> lower(file[1][i])] = columns

\* The records of a file after its first, as rows.
Body(file) ==
    LET body == IF file = << >> THEN << >> ELSE Tail(file)
    IN  [i \in 1..Len(body) |-> Record(body[i])]

WellFormed(file) == \A i \in 1..Len(Body(file)) : Len(Body(file)[i]) = Len(columns)

\* C10 as stated (column/header contract): a load whose source does not
\* begin with the column list (up to case) copies nothing and commits
\* neither data nor marker.  Stated for the sources that hold a first record
\* and at least one more.
C10_HeaderChecked ==
    LET c == conn[VMTD(X)]
        file == cleancsv[basename(X)].data
    IN  (Len(file) >= 2 /\ ~HeaderMatches(file))
            => /\ \A i \in 1..Len(c.errs) : c.errs[i] # "ok"
               /\ c.data = << >>
               /\ ais_clean[X] = << >>
               /\ VMTD(X) \notin table_updates

\* C10 as amended: the first record is skipped without being compared with
\* the column list.  A copy succeeds only if every later record has one
\* field per column and is refused for its format only if one has not; what
\* it copies, and what is committed, is every record after the first; a
\* file with such a bad record gets neither data nor marker committed.
C10_HeaderSkipped ==
    LET c == conn[VMTD(X)]
        file == cleancsv[basename(X)].data
    IN  /\ \A i \in 1..Len(c.errs) :
              /\ c.errs[i] = "ok" => WellFormed(file)
              /\ c.errs[i] = "BAD_COPY_FILE_FORMAT" => ~WellFormed(file)
        /\ c.data # << >> => c.data = <<Body(file)>>
        /\ ais_clean[X] # << >> => ais_clean[X] = <<Body(file)>>
        /\ ~WellFormed(file) => ais_clean[X] = << >> /\ VMTD(X) \notin table_updates

\* A file whose first record is not the column list has been loaded, rows
\* and marker committed.
C10_Witness ==
    /\ ~HeaderMatches(cleancsv[basename(X)].data)
    /\ Len(cleancsv[basename(X)].data) >= 2
    /\ ais_clean[X] = <<Body(cleancsv[basename(X)].data)>>
    /\ VMTD(X) \in table_updates

\* C11 as stated (marker content): every marker that exists lists the paths
\* its task processed: the csv paths of the archive for tmp/processcsv and
\* tmp/writecsv, the archives of the folder for tmp/archives, the index
\* queries issued for tmp/database.
C11_MarkersListProcessed ==
    /\ \A a \in ZipStems :
          /\ ProcessCsv_output(a).exists
                => ProcessCsv_output(a).content = list_of_csvpaths(a)
          /\ WriteCsvToDb_output(a).exists
                => WriteCsvToDb_output(a).content = list_of_csvpaths(a)
    /\ archives.exists => archives.content = list_of_archives
    /\ indexes["ais_clean"].exists => indexes["ais_clean"].content = Indices

\* C11 as amended: the per-archive markers list the csv paths of the
\* unzipped folder; the folder marker holds the path of the folder itself,
\* not its archives; the index marker holds the name of the table.
C11_MarkerContent ==
    /\ \A a \in ZipStems :
          /\ ProcessCsv_output(a).exists
                => ProcessCsv_output(a).content = list_of_csvpaths(a)
          /\ WriteCsvToDb_output(a).exists
                => WriteCsvToDb_output(a).content = list_of_csvpaths(a)
    /\ archives.exists
          => archives.content = {"folder_of_zips"} /\ archives.content # list_of_archives
    /\ indexes["ais_clean"].exists
          => /\ indexes["ais_clean"].content = {"ais_clean"}
             /\ indexes["ais_clean"].content # Indices

\* All four kinds of marker have been written, the per-archive ones for a
\* folder of two csv files.
C11_Witness ==
    /\ archives.exists
    /\ indexes["ais_clean"].exists
    /\ ProcessCsv_output("a1").exists
    /\ WriteCsvToDb_output("a1").exists
    /\ Cardinality(WriteCsvToDb_output("a1").content) = 2

\* C12 (external unzip failure is fatal): an unzip that has run started the
\* program once, with the script, the archive and the output folder as its
\* arguments, and one that has not run started nothing.  Once it has failed,
\* the per-archive tasks of that archive are not run in that invocation,
\* neither manifest of the archive exists, and the folder marker does not
\* exist nor is the entry point reported done.
C12_UnzipFailureFatal ==
    \A a \in ZipStems :
        LET ua == Task("UnzippedArchive", a, NoEntry) IN
        /\ hist.calls[a] = IF ua \in hist.ran
                           THEN << <<"unzip_csvs.sh", <<a, ".zip">>, <<"unzipped", a>> >> >>
                           ELSE << >>
        /\ status[ua] = "failed"
              => /\ Task("ProcessCsv", a, NoEntry) \notin hist.ran
                 /\ Task("WriteCsvToDb", a, NoEntry) \notin hist.ran
                 /\ ~ProcessCsv_output(a).exists
                 /\ ~WriteCsvToDb_output(a).exists
                 /\ ~archives.exists
                 /\ status[Root] # "done"

\* The unzip of a1 failed and the invocation has come to its end with the
\* unzip of a2 done.
C12_Witness ==
    /\ status[Task("UnzippedArchive", "a1", NoEntry)] = "failed"
    /\ status[Task("UnzippedArchive", "a2", NoEntry)] = "done"
    /\ Len(hist.calls["a1"]) = 1
    /\ inv.with_db
    /\ Running = {}
    /\ \A t \in Tasks : ~Runnable(t)

\* The tasks that discover sub-tasks in run.
Parents ==
    {Root, IndexRoot}
    \cup {Task(k, a, NoEntry) : k \in {"ProcessCsv", "WriteCsvToDb"}, a \in list_of_archives}

\* The sub-tasks a parent has to wait for, given how the entry point was
\* asked to load.
SubTasks(t, with_db) ==
    CASE t[1] = "ProcessCsv" -> {VM(<<t[2], e>>) : e \in FolderCsvFiles(t[2])}
      [] t[1] = "WriteCsvToDb" -> {LCA(<<t[2], e>>) : e \in FolderCsvFiles(t[2])}
      [] t[1] = "ProcessZipArchives" ->
            {Task(IF with_db THEN "WriteCsvToDb" ELSE "ProcessCsv", e[1], NoEntry) :
                e \in {x \in FolderListing : x[2] = ".zip"}}
      [] OTHER -> {Task("MakeIndexByQuery", "ais_clean", <<i, "">>) : i \in Indices}

\* C13 (join barrier): a parent's Target comes to exist only in a step
\* before which every sub-task it has to wait for has its Target and none
\* of them is failed or unfinished; in every state a parent's Target that
\* exists implies the Target of every sub-task (for the folder marker: of
\* either way of loading); and as long as a sub-task a parent yielded is
\* failed, the parent is reported failed, its Target is absent, and the
\* invocation ends reporting failure.
C13_JoinBarrier ==
    [][ \A t \in Parents :
          /\ (~TargetExists(t) /\ TargetExists(t)')
                => \A c \in SubTasks(t, inv.with_db) :
                      TargetExists(c) /\ status[c] \in {"done", "none"}
          /\ TargetExists(t)'
                => \E w \in BOOLEAN : \A c \in SubTasks(t, w) : TargetExists(c)'
          /\ (\E c \in dyn'[t] : status'[c] = "failed")
                => Outcome(t)' = "failed" /\ status'[t] # "done" /\ ~TargetExists(t)'
          /\ (/\ \E c \in dyn[t] : status[c] = "failed"
              /\ inv.phase = "running" /\ inv'.phase = "idle")
                => inv'.result = "failed" ]_vars

\* While loading, a load of a1 has failed, so that the per-archive task of
\* a1 waits for ever, and the per-archive task of a2 has written its
\* manifest.
C13_Witness ==
    /\ \E c \in dyn[Task("WriteCsvToDb", "a1", NoEntry)] : status[c] = "failed"
    /\ status[Task("WriteCsvToDb", "a1", NoEntry)] = "pending"
    /\ status[Task("WriteCsvToDb", "a2", NoEntry)] = "done"
    /\ WriteCsvToDb_output("a2").exists
    /\ status[Root] = "pending"

\* C14 (dependency ordering): no run starts unless the Target of what the
\* task requires exists: the archive for an unzip, the unzipped folder for
\* the per-archive tasks, the raw csv file in it for a validation, the
\* cleaned file for a bulk load, the marker of the bulk load for the
\* bookkeeping insert, the folder marker for the indices.  In every state
\* the bookkeeping of a file implies its bulk load, which implies its
\* cleaned file, which implies the unzipped folder of its archive with the
\* file in it.
C14_DependencyOrder ==
    [][ /\ \A t \in hist'.ran \ hist.ran :
              CASE t[1] = "UnzippedArchive" -> <<t[2], ".zip">> \in FolderListing
                [] t[1] \in {"ProcessCsv", "WriteCsvToDb"} -> unzipped[t[2]].exists
                [] t[1] = "ValidMessages" ->
                      unzipped[t[2]].exists /\ t[3] \in unzipped[t[2]].entries
                [] t[1] = "ValidMessagesToDatabase" -> cleancsv[t[3]].exists
                [] t[1] = "LoadCleanedAIS" ->
                      Task("ValidMessagesToDatabase", t[2], t[3]) \in table_updates
                [] t[1] = "MakeAllIndices" -> archives.exists
                [] OTHER -> TRUE
        /\ \A p \in CsvPaths :
              /\ ais_sources'[p] > 0 => VMTD(p) \in table_updates'
              /\ VMTD(p) \in table_updates' => cleancsv'[p[2]].exists
              /\ cleancsv'[p[2]].exists
                    => unzipped'[p[1]].exists /\ p[2] \in unzipped'[p[1]].entries ]_vars

\* Sibling files are not ordered: y.csv, listed after x.csv, has gone
\* through the whole chain to its bookkeeping row while the validation of
\* x.csv has not yet run.
C14_Witness ==
    /\ ais_sources[<<"a1", <<"y", ".csv">> >>] = 1
    /\ LCA(<<"a1", <<"y", ".csv">> >>) \in hist.ran
    /\ ~cleancsv[<<"x", ".csv">>].exists
    /\ VM(<<"a1", <<"x", ".csv">> >>) \notin hist.ran
    /\ status[VM(<<"a1", <<"x", ".csv">> >>)] = "pending"

\* C15 (schema-missing recovery path): a load whose first copy failed with
\* "table missing" has then reset the connection, issued the table creation,
\* once, and gone on to one more copy and no other; if that copy succeeded
\* and the load is done, it went on to touch and commit, and what is
\* committed is what a load whose first copy succeeded leaves when done:
\* every record of the file after the first, once, and the marker.
C15_SchemaRecovery ==
    \A p \in CsvPaths :
        LET c == conn[VMTD(p)]
            file == cleancsv[basename(p)].data
            committed == /\ ais_clean[p] = <<Body(file)>>
                         /\ VMTD(p) \in table_updates
                         /\ table_exists
        IN
        /\ (c.errs # << >> /\ c.errs[1] = "UNDEFINED_TABLE")
              => /\ Len(c.ops) >= 3
                 /\ SubSeq(c.ops, 1, 3) = <<"copy", "reset", "create_table">>
                 /\ c.ncreate = 1
                 /\ \A i \in 4..Len(c.ops) : c.ops[i] \notin {"reset", "create_table"}
                 /\ Len(c.errs) = 2 <=> (Len(c.ops) >= 4 /\ c.ops[4] = "copy")
                 /\ \A i \in 5..Len(c.ops) : c.ops[i] # "copy"
        /\ (c.errs = <<"UNDEFINED_TABLE", "ok">> /\ status[VMTD(p)] = "done")
              => /\ c.ops = <<"copy", "reset", "create_table", "copy", "touch", "commit">>
                 /\ committed
        /\ (c.errs = <<"ok">> /\ status[VMTD(p)] = "done")
              => /\ c.ops = <<"copy", "touch", "commit">>
                 /\ committed

\* A load is done whose first copy found no table and whose second copy
\* succeeded.
C15_Witness ==
    \E p \in SourceCsvs :
        /\ conn[VMTD(p)].errs = <<"UNDEFINED_TABLE", "ok">>
        /\ status[VMTD(p)] = "done"
        /\ ais_clean[p] = <<Body(cleancsv[basename(p)].data)>>
        /\ Len(Body(cleancsv[basename(p)].data)) = 1

\* C16 (non-schema failures are never retried): a copy that failed with
\* anything but "table missing" was the last call on its connection: no
\* table creation and no copy follows, the load has failed at the copy, and
\* nothing the transaction wrote is committed or pending, marker included.
\* A bookkeeping insert that failed leaves no row and no marker.
C16_NoRetryOnOtherFailure ==
    /\ \A p \in CsvPaths :
          LET c == conn[VMTD(p)] IN
          \A i \in 1..Len(c.errs) :
              c.errs[i] \notin {"ok", "UNDEFINED_TABLE"}
                  => /\ i = Len(c.errs)
                     /\ c.ops # << >> /\ c.ops[Len(c.ops)] = "copy"
                     /\ c.ncreate = i - 1
                     /\ status[VMTD(p)] = "failed" /\ c.raised = "copy"
                     /\ c.data = << >> /\ ~c.marker /\ ~c.created
                     /\ ais_clean[p] = << >>
                     /\ VMTD(p) \notin table_updates
    /\ \A p \in CsvPaths :
          conn[LCA(p)].raised = "insert"
              => /\ status[LCA(p)] = "failed"
                 /\ conn[LCA(p)].data = << >> /\ ~conn[LCA(p)].marker
                 /\ ais_sources[p] = 0
                 /\ LCA(p) \notin table_updates

\* The copy retried after a table creation was refused for the format of a
\* record, and the load has failed with nothing committed.
C16_Witness ==
    /\ conn[VMTD(X)].errs = <<"UNDEFINED_TABLE", "BAD_COPY_FILE_FORMAT">>
    /\ conn[VMTD(X)].ops = <<"copy", "reset", "create_table", "copy">>
    /\ status[VMTD(X)] = "failed"

\* C17 (index after loads): whenever MakeAllIndices or one of its index
\* queries starts to run, every csv file of every archive of the folder has
\* its bulk-load marker and its bookkeeping marker.  Stated for the folders
\* that were unzipped in full.
C17_IndexAfterLoads ==
    [][ \A t \in hist'.ran \ hist.ran :
          (t[1] \in {"MakeAllIndices", "MakeIndexByQuery"} /\ AllUnzipped)
              => \A p \in SourceCsvs :
                    VMTD(p) \in table_updates /\ LCA(p) \in table_updates ]_vars

\* The index task of an entry of the specification of a table.
IndexTask(tb, idx) == Task("MakeIndexByQuery", tb, <<idx, "">>)

\* The entries of the index specification of a table MakeAllIndices knows.
IndexSpec(tb) == IF tb = "ais_clean" THEN {"mmsi_idx"} ELSE {"mmsi_idx", "time_idx"}

\* C18 (index fan-out): for ais_clean and ais_dirty, a MakeAllIndices that
\* has run has yielded exactly one index task per entry of the table's index
\* specification, and its marker exists only if each of them has its marker
\* and its index exists.  For another table it fails, yields nothing, leaves
\* no marker and no index query of any table is run for it.  Every index
\* query creates the index of its own entry and no other, and one issued for
\* an index that exists leaves the set of indices unchanged.
C18_IndexFanOut ==
    [][ /\ \A tb \in {"ais_clean", "ais_dirty"} :
              LET t == Task("MakeAllIndices", tb, NoEntry) IN
              /\ t \in hist'.ran
                    => /\ dyn'[t] = {IndexTask(tb, idx) : idx \in IndexSpec(tb)}
                       /\ Cardinality(dyn'[t]) = Cardinality(IndexSpec(tb))
              /\ indexes'[tb].exists
                    => \A idx \in IndexSpec(tb) :
                          /\ IndexTask(tb, idx) \in table_updates'
                          /\ <<tb, idx>> \in pg_indexes'
              /\ (~indexes[tb].exists /\ indexes'[tb].exists)
                    => \A idx \in IndexSpec(tb) : status[IndexTask(tb, idx)] # "failed"
        /\ \A tb \in Tables \ {"ais_clean", "ais_dirty"} :
              LET t == Task("MakeAllIndices", tb, NoEntry) IN
              /\ ~indexes'[tb].exists
              /\ dyn'[t] = {}
              /\ t \in hist'.ran => status'[t] = "failed"
              /\ inv'.table = tb => hist'.ran \subseteq {t}
        /\ \A x \in TableIndices :
              (status[IndexTask(x[1], x[2])] = "running"
                  /\ status'[IndexTask(x[1], x[2])] # "running")
                  => /\ pg_indexes' \in {pg_indexes, pg_indexes \cup {x}}
                     /\ x \in pg_indexes => pg_indexes' = pg_indexes
                     /\ status'[IndexTask(x[1], x[2])] = "done" => x \in pg_indexes'
        /\ pg_indexes \subseteq pg_indexes' ]_vars

\* MakeAllIndices of ais_dirty has written its marker after both of its
\* index queries, one of them for an index that existed already; before
\* that, MakeAllIndices of the unknown table had failed.
C18_Witness ==
    /\ inv.n = 2
    /\ inv.table = "ais_dirty"
    /\ indexes["ais_dirty"].exists
    /\ Cardinality(dyn[Task("MakeAllIndices", "ais_dirty", NoEntry)]) = 2
    /\ \A idx \in DirtyIndices : IndexTask("ais_dirty", idx) \in hist.ran
    /\ ~indexes["ais_other"].exists
    /\ ~indexes["ais_clean"].exists

\* The connections open in a state: one per database task that is running.
OpenConnections == {t \in ConnTasks : conn[t].pc # "idle"}

C20_TargetsInjective ==
    /\ \A t, u \in work.ran \cup work.skipped :
          (t[1] = u[1] /\ output_fn(t) = output_fn(u)) => t = u
    /\ \A t \in work.skipped : t \in work.ran

\* C21 (retry reads the whole source): a second copy attempt is handed the
\* file object at its start, whatever the failed first attempt has read, and
\* a load that succeeded on the retry commits the rows a load of the same
\* file commits that succeeded on its first attempt.
C21_RetryReadsWholeSource ==
    [][ \A p \in CsvPaths :
          LET t == VMTD(p)
              file == cleancsv[basename(p)].data
          IN  /\ (conn[t].pc = "copy" /\ conn[t].attempt = 1 /\ conn'[t] # conn[t])
                    => conn[t].pos = 0
              /\ (/\ conn[t].pc = "commit"
                  /\ conn[t].errs = <<"UNDEFINED_TABLE", "ok">>
                  /\ status'[t] = "done")
                    => ais_clean'[p] = <<copy_expert(TRUE, file).rows>> ]_vars

====
